---- MODULE Spec2Model ----
(***************************************************************************)
(* Reconciliation of inbox invoices against the Drive archive and the      *)
(* "registro" ledger: transform_invoices (flagging), InvoiceProblem        *)
(* (work-queue assembly) and Invoice (work item construction).             *)
(*                                                                         *)
(* Tables are sequences of records (one record per DataFrame row, in row   *)
(* order).  A table of all_inputs is [present, rows]: the extractors only  *)
(* store a key in clean_inputs when the fetched table is non-empty, so an  *)
(* empty store is an absent key and all_inputs.get(key) is None.           *)
(***************************************************************************)
EXTENDS Integers, Sequences, FiniteSets, TLC

(* ------------------------------ bounds --------------------------------- *)
MaxSrc == 2        \* rows of the "invoices" (Gmail attachments) table
MaxArch == 1       \* rows of the "files" (Drive) table
MaxReg == 1        \* rows of the "register" (Sheets) table

(* ------------------------- values of the tables ------------------------ *)
Null == "null"                 \* None / missing value of an object column
Empty == ""                    \* the empty string
NaT == 0                       \* pd.to_datetime(..., errors='coerce') of an unparsable date
NaN == -1                      \* missing value of a numeric column
Hashes == {"h1", "h2"}         \* md5 digests (compute_hash / Drive md5Checksum)
Filenames == {<<"a">>, <<"b">>} \* filenames as character sequences
Dates == {NaT, 1, 2}           \* unparsable, earlier, later

\* filenames that differ from <<"a">> by surrounding blanks or by letter case
DriftNames == {<<"a">>, <<" ", "a">>, <<"a", " ">>, <<"A">>, <<"b">>}

NonEmptySeqs(S, n) == UNION {[1..k -> S] : k \in 1..n}

SourceRows(H) == [hash : H, filename : Filenames, date_received : Dates]
Folders == {<<"d">>}           \* Drive relative_path / registro canal_sie
FileRows ==
    [md5Checksum : Hashes, filename : Filenames, relative_path : Folders,
     modified_time : {1}, created_time : {1}]
RegisterRows == [md5Checksum : Hashes, filename : {<<"a">>}, canal_sie : Folders]

NoTable == [present |-> FALSE, rows |-> <<>>]
Table(rs) == [present |-> TRUE, rows |-> rs]

VARIABLES all_inputs, data_model, data_register, problem, ctor, stage, ocr, orch,
          extractors, data_files, runs
vars == <<all_inputs, data_model, data_register, problem, ctor, stage, ocr, orch,
          extractors, data_files, runs>>
\* the state of the steps downstream of the work queue
downstream == <<ocr, orch, extractors, data_files, runs>>

(* ------------------- transform_invoices, step by step ------------------ *)
Max(S) == CHOOSE m \in S : \A x \in S : x <= m

\* invoices.groupby('hash'): the rows of one key; null keys form no group
HashGroup(rows, h) == IF h = Null THEN {} ELSE {j \in DOMAIN rows : rows[j].hash = h}

\* mutant: cumulative count of the hash up to the row instead of the group size
invoice_count_cum(rows, i) ==
    IF rows[i].hash = Null THEN NaN
    ELSE Cardinality({j \in HashGroup(rows, rows[i].hash) : j <= i})

\* invoices.groupby('hash')['hash'].transform('count')
invoice_count(rows, i) ==
    IF rows[i].hash = Null THEN NaN ELSE Cardinality(HashGroup(rows, rows[i].hash))

\* invoices['invoice_count'] > 1   (NaN > 1 is False)
duplicated(rows, i) == invoice_count(rows, i) > 1

Min(S) == CHOOSE m \in S : \A x \in S : m <= x

\* mutant: the earliest date of the group instead of the latest
latest_date_min(rows, i) ==
    LET ds == {rows[j].date_received : j \in HashGroup(rows, rows[i].hash)} \ {NaT}
    IN  IF ds = {} THEN NaT ELSE Min(ds)

\* invoices.groupby('hash')['date_received'].transform('max')  (NaT skipped)
latest_date(rows, i) ==
    LET ds == {rows[j].date_received : j \in HashGroup(rows, rows[i].hash)} \ {NaT}
    IN  IF ds = {} THEN NaT ELSE Max(ds)

\* invoices['date_received'] == invoices['latest_date']   (NaT == NaT is False)
is_latest(rows, i) ==
    /\ rows[i].date_received # NaT
    /\ rows[i].date_received = latest_date(rows, i)

gmail_hashes(all) == {all.invoices.rows[i].hash : i \in DOMAIN all.invoices.rows}
drive_hashes(all) == {all.files.rows[j].md5Checksum : j \in DOMAIN all.files.rows}

register_hashes(all) == {all.register.rows[j].md5Checksum : j \in DOMAIN all.register.rows}

\* mutant: the ledger decides when it is non-empty, the archive otherwise
new_invoice_ledger(all, h) ==
    IF all.register.present
    THEN h \in (gmail_hashes(all) \ register_hashes(all))
    ELSE h \in (gmail_hashes(all) \ drive_hashes(all))

\* mutant: an archive file counts only when a source record of the hash has
\* its filename
new_invoice_samename(all, h) ==
    /\ h \in gmail_hashes(all)
    /\ ~\E i \in DOMAIN all.invoices.rows, j \in DOMAIN all.files.rows :
          /\ all.invoices.rows[i].hash = h
          /\ all.files.rows[j].md5Checksum = h
          /\ all.files.rows[j].filename = all.invoices.rows[i].filename

\* h in (gmail_hashes - drive_hashes)
new_invoice(all, h) == h \in (gmail_hashes(all) \ drive_hashes(all))

\* mutant: the intersection with the Drive hashes is forgotten
common_invoice_any(all, h) == h \in gmail_hashes(all)

\* h in (gmail_hashes & drive_hashes)
common_invoice(all, h) == h \in (gmail_hashes(all) \cap drive_hashes(all))

\* mutant: the rows of the group are counted instead of its distinct filenames
diff_filename_in_gmail_rows(rows, i) ==
    Cardinality(HashGroup(rows, rows[i].hash)) > 1

\* duplicates_info: len(set(gmail_filenames)) > 1, left-merged on 'hash'
\* (a null hash has no duplicates_info row; its missing flag reads as FALSE)
diff_filename_in_gmail(rows, i) ==
    Cardinality({rows[j].filename : j \in HashGroup(rows, rows[i].hash)}) > 1

\* merged_common: inner join of the common Gmail rows with the Drive rows
merged_common(all) ==
    {p \in (DOMAIN all.invoices.rows) \X (DOMAIN all.files.rows) :
        /\ common_invoice(all, all.invoices.rows[p[1]].hash)
        /\ all.invoices.rows[p[1]].hash = all.files.rows[p[2]].md5Checksum}

\* merged_common[filename_gmail != filename_drive].groupby('hash').size()
diff_filename_mapping(all) ==
    {all.invoices.rows[p[1]].hash : p \in
        {q \in merged_common(all) :
            all.invoices.rows[q[1]].filename # all.files.rows[q[2]].filename}}

\* mutant: a hash is flagged only when every matched pair differs
diff_filename_between_sources_all(all, h) ==
    /\ \E q \in merged_common(all) : all.invoices.rows[q[1]].hash = h
    /\ \A q \in merged_common(all) :
          all.invoices.rows[q[1]].hash = h =>
              all.invoices.rows[q[1]].filename # all.files.rows[q[2]].filename

\* invoices['hash'].apply(lambda h: h in diff_filename_mapping)
diff_filename_between_sources(all, h) == h \in diff_filename_mapping(all)

\* mutant: the per-row filename info is merged back without the groupby
duplicates_info_per_row(rows, h) == Cardinality(HashGroup(rows, h))

\* the number of rows of duplicates_info with hash h: groupby('hash').agg(...)
\* has one row per hash of the table, and none for a null hash
duplicates_info(rows, h) == IF HashGroup(rows, h) = {} THEN 0 ELSE 1

RECURSIVE Repeat(_, _)
Repeat(x, n) == IF n = 0 THEN <<>> ELSE <<x>> \o Repeat(x, n - 1)

\* pd.merge(invoices, duplicates_info, on='hash', how='left'): the indices of
\* the left rows from i on, in left order, each once per matching right row
\* and once when no right row matches
RECURSIVE left_merge(_, _)
left_merge(rows, i) ==
    IF i > Len(rows) THEN <<>>
    ELSE Repeat(i, Max({1, duplicates_info(rows, rows[i].hash)})) \o left_merge(rows, i + 1)

AnnotatedRow(all, i) ==
    LET rows == all.invoices.rows
    IN  [invoice_count |-> invoice_count(rows, i),
         duplicated |-> duplicated(rows, i),
         latest_date |-> latest_date(rows, i),
         is_latest |-> is_latest(rows, i),
         new_invoice |-> new_invoice(all, rows[i].hash),
         common_invoice |-> common_invoice(all, rows[i].hash),
         diff_filename_in_gmail |-> diff_filename_in_gmail(rows, i),
         diff_filename_between_sources |-> diff_filename_between_sources(all, rows[i].hash)]
        @@ rows[i]

\* the columns of a table are the fields of its rows
HasColumns(t, cs) == \A i \in DOMAIN t.rows : cs \subseteq DOMAIN t.rows[i]

\* the columns transform_invoices indexes (a missing one is a KeyError)
InvoicesColumns == {"hash", "filename", "date_received"}
FilesColumns == {"md5Checksum", "filename", "relative_path", "modified_time", "created_time"}

\* all_inputs.get(k).copy() raises on a missing table and indexing a missing
\* column raises KeyError; otherwise the annotated rows of the left merge
transform_invoices(all) ==
    IF \/ ~all.invoices.present \/ ~all.files.present
       \/ ~HasColumns(all.invoices, InvoicesColumns)
       \/ ~HasColumns(all.files, FilesColumns)
    THEN [status |-> "raised", rows |-> <<>>]
    ELSE [status |-> "ok",
          rows |-> LET merged == left_merge(all.invoices.rows, 1)
                   IN  [k \in DOMAIN merged |-> AnnotatedRow(all, merged[k])]]

\* mutant: the columns are added to the caller's invoices table in place
inputs_after_transform_inplace(all) ==
    IF transform_invoices(all).status = "ok"
    THEN [all EXCEPT !.invoices.rows = transform_invoices(all).rows]
    ELSE all

\* all_inputs as the call leaves it: invoices and files are .copy()'d first
\* and every conversion and annotation is made on the copies
inputs_after_transform(all) == all

(* ------------------- transform_register, step by step ----------------- *)
\* str.strip(): leading and trailing blanks removed
RECURSIVE LStrip(_)
LStrip(s) == IF s # <<>> /\ Head(s) = " " THEN LStrip(Tail(s)) ELSE s
RECURSIVE RStrip(_)
RStrip(s) == IF s # <<>> /\ s[Len(s)] = " " THEN RStrip(SubSeq(s, 1, Len(s) - 1)) ELSE s
Strip(s) == RStrip(LStrip(s))

\* mutant: a register without md5Checksum is rejected like the other columns
RegisterColumns_md5 == {"filename", "canal_sie", "md5Checksum"}

\* the columns transform_register checks before it computes anything
RegisterColumns == {"filename", "canal_sie"}
RegisterFilesColumns == {"relative_path", "filename", "md5Checksum"}

\* canal_sie.str.strip() + '/' + filename.str.strip()
full_path(folder, name) == Strip(folder) \o <<"/">> \o Strip(name)
files_full_paths(all) ==
    {full_path(all.files.rows[j].relative_path, all.files.rows[j].filename) :
        j \in DOMAIN all.files.rows}

\* register.groupby('md5Checksum')['md5Checksum'].transform('count')
register_count(rows, i) ==
    IF rows[i].md5Checksum = Null THEN NaN
    ELSE Cardinality({j \in DOMAIN rows : rows[j].md5Checksum = rows[i].md5Checksum})

\* drive_info: the Drive rows of one md5Checksum
DriveGroup(all, h) == {j \in DOMAIN all.files.rows : all.files.rows[j].md5Checksum = h}

\* the enriched row of a register that has an md5Checksum column
RegisterRowMd5(all, i) ==
    LET r == all.register.rows[i]
        g == DriveGroup(all, r.md5Checksum)
        fp == full_path(r.canal_sie, r.filename)
    IN  [full_path |-> fp,
         file_exists |-> fp \in files_full_paths(all),
         register_count |-> register_count(all.register.rows, i),
         duplicated_in_register |-> register_count(all.register.rows, i) > 1,
         drive_file_count |-> IF g = {} THEN NaN ELSE Cardinality(g),
         drive_duplicates |-> Cardinality(g) > 1,
         diff_filename_between_sources |->
             IF g = {} THEN FALSE
             ELSE Strip(r.filename) # Strip(all.files.rows[Min(g)].filename)] @@ r

\* the enriched row of a register without an md5Checksum column
RegisterRowNoMd5(all, i) ==
    LET r == all.register.rows[i]
        fp == full_path(r.canal_sie, r.filename)
    IN  [full_path |-> fp,
         file_exists |-> fp \in files_full_paths(all),
         duplicated_in_register |-> FALSE,
         drive_file_count |-> Null,
         drive_duplicates |-> FALSE,
         diff_filename_between_sources |-> FALSE] @@ r

\* register.dropna(subset=['md5Checksum']): the rows that are kept
KeptRegister(rows) ==
    SelectSeq([i \in DOMAIN rows |-> i], LAMBDA i : rows[i].md5Checksum # Null)

\* transform_register: KeyError unless the register has filename and
\* canal_sie and the files table relative_path, filename and md5Checksum;
\* a register without md5Checksum is enriched with its flags set to False
transform_register(all) ==
    IF \/ ~all.register.present \/ ~all.files.present
       \/ ~HasColumns(all.register, RegisterColumns)
       \/ ~HasColumns(all.files, RegisterFilesColumns)
    THEN [status |-> "raised", rows |-> <<>>]
    ELSE IF HasColumns(all.register, {"md5Checksum"})
    THEN [status |-> "ok",
          rows |-> LET kept == KeptRegister(all.register.rows)
                   IN  [k \in DOMAIN kept |-> RegisterRowMd5(all, kept[k])]]
    ELSE [status |-> "ok",
          rows |-> [i \in DOMAIN all.register.rows |-> RegisterRowNoMd5(all, i)]]

(* --------------------------- transform_files --------------------------- *)
\* files.groupby('md5Checksum'): the rows of one checksum
FilesGroup(rows, h) == IF h = Null THEN {} ELSE {j \in DOMAIN rows : rows[j].md5Checksum = h}

\* files.groupby('md5Checksum')['md5Checksum'].transform('count')
file_count(rows, i) ==
    IF rows[i].md5Checksum = Null THEN NaN ELSE Cardinality(FilesGroup(rows, rows[i].md5Checksum))

\* mutant: groupby.first() on the sorted rows, the oldest modified_time
latest_files_first(rows, h) ==
    LET ts == {rows[j].modified_time : j \in FilesGroup(rows, h)} \ {NaT}
    IN  IF ts = {} THEN NaT ELSE Min(ts)

\* files.sort_values('modified_time').groupby('md5Checksum').last(): the
\* modified_time of the latest_files row of checksum h; last() takes the last
\* non-null value in ascending order and is null when the group has none
latest_files(rows, h) ==
    LET ts == {rows[j].modified_time : j \in FilesGroup(rows, h)} \ {NaT}
    IN  IF ts = {} THEN NaT ELSE Max(ts)

\* latest_marker['_merge'] == 'both': the left merge on (md5Checksum,
\* modified_time) finds a latest_files row; merge keys match null with null
last_version(rows, i) ==
    /\ FilesGroup(rows, rows[i].md5Checksum) # {}
    /\ rows[i].modified_time = latest_files(rows, rows[i].md5Checksum)

TransformFilesColumns == {"md5Checksum", "modified_time", "filename", "relative_path"}

\* transform_files: the files table with file_count, duplicated and
\* last_version added; a missing table or column raises
transform_files(all) ==
    IF ~all.files.present \/ ~HasColumns(all.files, TransformFilesColumns)
    THEN [status |-> "raised", rows |-> <<>>]
    ELSE [status |-> "ok",
          rows |-> [i \in DOMAIN all.files.rows |->
                       [file_count |-> file_count(all.files.rows, i),
                        duplicated |-> file_count(all.files.rows, i) > 1,
                        last_version |-> last_version(all.files.rows, i)]
                       @@ all.files.rows[i]]]

(* ----------------------------- extractors ------------------------------ *)
\* the number of extract() calls followed on one extractor
MaxCalls == 2

\* what the Drive listing and the Gmail threads can hold at a fetch
DriveFetches == [files : {<<>>, <<[name |-> <<"a">>]>>, <<[name |-> <<"b">>]>>}]
GmailFetches == [messages : {<<"m">>},
                 invoices : {<<>>, <<[filename |-> <<"a">>]>>, <<[filename |-> <<"b">>]>>}]

\* DriveManager.clean_input_data: df.rename(columns={"name": "filename", ...})
rename_columns(rows) == [i \in DOMAIN rows |-> [filename |-> rows[i].name]]
\* GmailManager.clean_input_data stores the raw tables as they are
as_fetched(rows) == rows

\* self._clean_inputs[key] = df, done only if df is not None and not df.empty
\* (cleaned is the cleaned form of raw[key])
clean_table(raw, key, old, cleaned) ==
    IF key \in DOMAIN raw /\ raw[key] # <<>> THEN Table(cleaned) ELSE old

DriveManager_clean_input_data(raw, clean) ==
    [files |-> clean_table(raw, "files", clean.files, rename_columns(raw.files))]
GmailManager_clean_input_data(raw, clean) ==
    [messages |-> clean_table(raw, "messages", clean.messages, as_fetched(raw.messages)),
     invoices |-> clean_table(raw, "invoices", clean.invoices, as_fetched(raw.invoices))]

\* BaseExtractor.__init__: _clean_inputs = {}, then fetch and clean
DriveManager_init(fetch) ==
    [raw |-> fetch, calls |-> 0, status |-> "ok",
     clean |-> DriveManager_clean_input_data(fetch, [files |-> NoTable])]
GmailManager_init(fetch) ==
    [raw |-> fetch, calls |-> 0, status |-> "ok",
     clean |-> GmailManager_clean_input_data(fetch, [messages |-> NoTable, invoices |-> NoTable])]

\* BaseExtractor.extract: a fetch that raises leaves both dicts as they were;
\* cleaned is what clean_input_data makes of the fetched data and e.clean
extract(e, fetched, raises, cleaned) ==
    IF raises
    THEN [e EXCEPT !.calls = @ + 1, !.status = "raised"]
    ELSE [raw |-> fetched, calls |-> e.calls + 1, status |-> "ok", clean |-> cleaned]

(* ------------------------------ Invoice -------------------------------- *)
\* row.get(key, default)
Get(row, key, default) == IF key \in DOMAIN row THEN row[key] ELSE default

\* mutant: a missing new_invoice key counts as new
Invoice_init_default_true(row) ==
    IF ~Get(row, "new_invoice", TRUE)
    THEN [raised |-> TRUE, obj |-> <<>>]
    ELSE [raised |-> FALSE, obj |-> <<[hash |-> Get(row, "hash", Null)]>>]

\* Invoice.__init__: raises ValueError unless row['new_invoice'] is true
Invoice_init(row) ==
    IF ~Get(row, "new_invoice", FALSE)
    THEN [raised |-> TRUE, obj |-> <<>>]
    ELSE [raised |-> FALSE,
          obj |-> <<[hash |-> Get(row, "hash", Null),
                     date_received |-> Get(row, "date_received", Null),
                     sender |-> Get(row, "sender", Null),
                     filename |-> Get(row, "filename", Null),
                     pdf_local_path |-> Get(row, "pdf_local_path", Null),
                     invoice_count |-> Get(row, "invoice_count", Null),
                     duplicated |-> Get(row, "duplicated", Null),
                     new_invoice |-> Get(row, "new_invoice", Null),
                     common_invoice |-> Get(row, "common_invoice", Null),
                     diff_filename_in_gmail |-> Get(row, "diff_filename_in_gmail", Null),
                     diff_filename_between_sources |->
                         Get(row, "diff_filename_between_sources", Null),
                     is_latest |-> Get(row, "is_latest", Null)]>>]

(* --------------------------- InvoiceProblem ---------------------------- *)
\* mutant: no filter, every row of the table is handed to Invoice
new_invoices_df_all(rows) == rows

\* invoices_df[invoices_df['new_invoice'] == True]
new_invoices_df(rows) == SelectSeq(rows, LAMBDA r : r.new_invoice = TRUE)

\* InvoiceProblem.__init__: one Invoice per row of new_invoices_df
InvoiceProblem_init(rows) ==
    LET sel == new_invoices_df(rows)
        made == [k \in DOMAIN sel |-> Invoice_init(sel[k])]
    IN  IF \E k \in DOMAIN made : made[k].raised
        THEN [status |-> "raised", invoices |-> <<>>]
        ELSE [status |-> "ok", invoices |-> [k \in DOMAIN made |-> made[k].obj[1]]]

(* ------------------------ OCR pass over the queue ---------------------- *)
\* the two kinds of data an extraction returns: its canal_sie is one of the
\* invalid values, or it is a channel number
OcrInvalidCanal == "ocr_data, canal_sie invalid"
OcrWithCanal == "ocr_data, canal_sie 4100"

\* what ocr_extractor.process_invoice does: it returns extracted data or raises
ExtractorOutcomes == {"raise", OcrInvalidCanal, OcrWithCanal}

\* Invoice.process_ocr: ValueError without a pdf_local_path, otherwise
\* whatever the extractor does
process_ocr(inv, outcome) ==
    IF inv.pdf_local_path \in {Null, Empty}
    THEN [raised |-> TRUE, value |-> "No PDF local path"]
    ELSE IF outcome = "raise"
    THEN [raised |-> TRUE, value |-> "extractor error"]
    ELSE [raised |-> FALSE, value |-> outcome]

\* mutant: the exception of an invoice leaves the loop
ocr_iteration_abort(o, inv, outcome) ==
    LET r == process_ocr(inv, outcome)
    IN  IF r.raised
        THEN [o EXCEPT !.pc = "raised"]
        ELSE [o EXCEPT !.i = @ + 1,
                       !.results = Append(@, [hash |-> inv.hash, ocr_data |-> r.value])]

\* one iteration of run_ocr_on_all: try process_ocr and append the result,
\* except Exception append an entry with the error and no data
ocr_iteration(o, inv, outcome) ==
    LET r == process_ocr(inv, outcome)
    IN  [o EXCEPT !.i = @ + 1,
                  !.results = Append(@,
                      IF r.raised
                      THEN [hash |-> inv.hash, ocr_data |-> Null, error |-> r.value]
                      ELSE [hash |-> inv.hash, ocr_data |-> r.value])]

(* -------------------------- InvoiceOrchestrator ------------------------ *)
\* "desconocido" if ocr_data.get("canal_sie") in INVALID_CANAL_SIE_VALUES
\* else str(ocr_data.get("canal_sie", ""))
canal_sie_of(data) == IF data = OcrInvalidCanal THEN "desconocido" ELSE "4100"

\* mutant: the exception of an invoice is logged and the loop goes on
after_exception_swallowed == "loop"

\* except Exception: logger.error(...); raise -- the exception leaves
\* process_invoice_orchestra and, uncaught in run, ends the run
after_exception == "raised"

\* mutant: the extraction also overwrites the filename of the invoice
invoice_fields_from_ocr_filename(data) ==
    [canal_sie |-> canal_sie_of(data), marca_temporal_ocr |-> data, filename |-> <<>>]

\* the attributes process_invoice_orchestra sets on the invoice from ocr_data
invoice_fields_from_ocr(data) ==
    [canal_sie |-> canal_sie_of(data), marca_temporal_ocr |-> data]

\* mutant: the PDF is uploaded before its fields are extracted
first_step_upload == "upload"

\* process_invoice_orchestra begins with the extraction
first_step == "ocr"

\* mutant: the email is sent for every unknown channel, whatever the config
step_after_ocr_always(canal, auto_claim_canal) ==
    IF canal = "desconocido" THEN "email" ELSE "upload"

\* the step after the extraction: the notification email when the channel is
\* unknown and auto_claim_canal is set, the upload otherwise
step_after_ocr(canal, auto_claim_canal) ==
    IF canal = "desconocido" /\ auto_claim_canal THEN "email" ELSE "upload"

\* write_to_sheets: one registro row per invoice of the problem, in queue order
registro_rows(invoices) ==
    [k \in DOMAIN invoices |->
        [invoice_hash |-> invoices[k].hash, invoice_filename |-> invoices[k].filename]]

\* sheets_manager.append_row(rows_data, sheet_name, sheet_range): the rows
\* are added at the end of the sheet
append_row(sheet, rows_data) == sheet \o rows_data

\* drive_manager.upload_pdf: the archive file of the k-th upload of a run,
\* named after the invoice's local PDF; Drive computes the md5Checksum of the
\* uploaded bytes, the hash Gmail computed of the same bytes
uploaded_files(invoices, drive) ==
    [k \in DOMAIN drive |->
        [md5Checksum |-> drive[k], filename |-> invoices[k].filename,
         relative_path |-> <<"d">>, modified_time |-> 1, created_time |-> 1]]

\* the ledger as the next process reads it: the registro rows appended by
\* the run follow the rows it had
register_after(register, registro) ==
    LET rows == register.rows \o
                [k \in DOMAIN registro |->
                    [md5Checksum |-> registro[k].invoice_hash,
                     filename |-> registro[k].invoice_filename, canal_sie |-> <<"d">>]]
    IN  IF rows = <<>> THEN NoTable ELSE Table(rows)

\* the events <<kind, k>> of the invoices 1..n, in queue order
RECURSIVE EventsFor(_, _)
EventsFor(kind, n) == IF n = 0 THEN <<>> ELSE Append(EventsFor(kind, n - 1), <<kind, n>>)

(* ------------------------------ states --------------------------------- *)
NoModel == [status |-> "none", rows |-> <<>>]
NoProblem == [status |-> "none", invoices |-> <<>>]
NoCtor == [called |-> FALSE, raised |-> FALSE, flag |-> "none", obj |-> <<>>]
NoOcr == [pc |-> "idle", i |-> 0, results |-> <<>>]
NoExtractors == [gmail |-> GmailManager_init([messages |-> <<"m">>, invoices |-> <<>>]),
                 drive |-> DriveManager_init([files |-> <<>>])]
\* the first process is running and no earlier run has uploaded anything
NoRuns == [n |-> 1, uploaded |-> {}]
NoOrch ==
    [pc |-> "idle", i |-> 0, auto_claim_canal |-> FALSE,
     raw_ocr_results |-> <<>>, line_results |-> <<>>,
     emails |-> <<>>, drive |-> <<>>,
     registro |-> <<>>, line_items |-> <<>>, ocr_data |-> <<>>,
     events |-> <<>>, raised_in |-> "none"]

\* nothing has been transformed, built or constructed yet
Fresh ==
    /\ data_model = NoModel
    /\ data_register = NoModel
    /\ problem = NoProblem
    /\ ctor = NoCtor
    /\ stage = "loaded"
    /\ ocr = NoOcr
    /\ orch = NoOrch
    /\ extractors = NoExtractors
    /\ data_files = NoModel
    /\ runs = NoRuns

InputTables(H) ==
    [invoices : {NoTable} \cup {Table(rs) : rs \in NonEmptySeqs(SourceRows(H), MaxSrc)},
     files    : {NoTable} \cup {Table(rs) : rs \in NonEmptySeqs(FileRows, MaxArch)},
     register : {NoTable} \cup {Table(rs) : rs \in NonEmptySeqs(RegisterRows, MaxReg)}]

\* the snapshots the extractors load: every Gmail attachment carries the md5
\* of its bytes
Init ==
    /\ all_inputs \in InputTables(Hashes)
    /\ Fresh

\* any invoices table a caller can hand to transform_invoices, including
\* rows without a usable hash
InitNull ==
    /\ all_inputs \in InputTables(Hashes \cup {Null, Empty})
    /\ Fresh

\* snapshots whose filenames carry surrounding blanks and upper-case letters;
\* the dates are valid and the ledger is empty
DriftTables ==
    [invoices : {Table(rs) : rs \in NonEmptySeqs(
                     [hash : Hashes, filename : DriftNames, date_received : {1}], MaxSrc)},
     files    : {Table(rs) : rs \in NonEmptySeqs(
                     [md5Checksum : Hashes, filename : DriftNames, relative_path : Folders,
                      modified_time : {1}, created_time : {1}], MaxArch)},
     register : {NoTable}]

InitDrift ==
    /\ all_inputs \in DriftTables
    /\ Fresh

\* snapshots with both tables present, valid dates and an empty ledger
NamesTables ==
    [invoices : {Table(rs) : rs \in NonEmptySeqs(
                     [hash : Hashes, filename : Filenames, date_received : {1}], MaxSrc)},
     files    : {Table(rs) : rs \in NonEmptySeqs(FileRows, MaxArch)},
     register : {NoTable}]

InitNames ==
    /\ all_inputs \in NamesTables
    /\ Fresh

\* a row without the columns D
Project(r, D) == [k \in (DOMAIN r) \ D |-> r[k]]

\* the row sets of a table that has all its columns or lacks one of cs
SchemaVariants(S, cs) == {S} \cup {{Project(r, {c}) : r \in S} : c \in cs}

\* the tables of at most n rows over one of the row sets
TablesOver(Vs, n) == UNION {{Table(rs) : rs \in NonEmptySeqs(V, n)} : V \in Vs}

\* snapshots in which a table may lack one whole column
SchemaTables ==
    [invoices : TablesOver(SchemaVariants(
                    [hash : Hashes, filename : {<<"a">>}, date_received : {1}],
                    InvoicesColumns), MaxSrc),
     files    : TablesOver(SchemaVariants(FileRows, FilesColumns), MaxArch),
     register : {NoTable} \cup TablesOver(SchemaVariants(
                    RegisterRows, {"md5Checksum", "filename", "canal_sie"}), MaxReg)]

\* snapshots whose archive holds up to ArchDup files, so that one checksum
\* can have several files, with a ledger whose filenames may carry blanks
ArchDup == 2
DupTables ==
    [invoices : {Table(rs) : rs \in NonEmptySeqs(
                     [hash : Hashes, filename : Filenames, date_received : {1}], MaxSrc)},
     files    : {Table(rs) : rs \in NonEmptySeqs(FileRows, ArchDup)},
     register : {Table(rs) : rs \in NonEmptySeqs(
                     [md5Checksum : Hashes, filename : {<<"a">>, <<"a", " ">>},
                      canal_sie : Folders], MaxReg)}]

InitDup ==
    /\ all_inputs \in DupTables
    /\ Fresh

\* the two managers as MainProcess.__init__ constructs them, each with the
\* data of its first fetch; the pipeline has not started
InitExtract ==
    /\ all_inputs = [invoices |-> NoTable, files |-> NoTable, register |-> NoTable]
    /\ data_model = NoModel /\ data_register = NoModel /\ problem = NoProblem
    /\ ctor = NoCtor /\ stage = "loaded" /\ ocr = NoOcr /\ orch = NoOrch
    /\ data_files = NoModel /\ runs = NoRuns
    /\ \E g \in GmailFetches, d \in DriveFetches :
          extractors = [gmail |-> GmailManager_init(g), drive |-> DriveManager_init(d)]

\* archive listings of up to MaxFiles files; Drive gives every file a
\* modifiedTime, which DriveManager.clean_input_data parses
MaxFiles == 3
FileTimes == {1, 2, 3}
FilesTables ==
    [invoices : {NoTable},
     files    : {NoTable} \cup {Table(rs) : rs \in NonEmptySeqs(
                     [md5Checksum : Hashes, filename : {<<"a">>}, relative_path : Folders,
                      modified_time : FileTimes, created_time : {1}], MaxFiles)},
     register : {NoTable}]

InitFiles ==
    /\ all_inputs \in FilesTables
    /\ Fresh

\* successive processes: the inbox of each holds up to MaxDeliveries
\* attachments stored on disk, the archive starts with one file
MaxDeliveries == 2
MaxRuns == 2
RunsSourceTables ==
    {Table(rs) : rs \in NonEmptySeqs(
        [hash : Hashes, filename : Filenames, date_received : {1},
         sender : {"s"}, pdf_local_path : {"p"}], MaxDeliveries)}

InitRuns ==
    /\ all_inputs \in
          [invoices : RunsSourceTables,
           files    : {Table(<<f>>) : f \in
                          [md5Checksum : Hashes, filename : {<<"a">>}, relative_path : Folders,
                           modified_time : {1}, created_time : {1}]},
           register : {NoTable}]
    /\ Fresh

InitSchema ==
    /\ all_inputs \in SchemaTables
    /\ Fresh

\* snapshots whose attachments were or were not stored on disk
QueueTables ==
    [invoices : {Table(rs) : rs \in NonEmptySeqs(
                     [hash : Hashes, filename : {<<"a">>}, date_received : {1},
                      sender : {"s"}, pdf_local_path : {Null, "p"}], MaxSrc)},
     files    : {Table(rs) : rs \in NonEmptySeqs(
                     [md5Checksum : Hashes, filename : {<<"a">>}, relative_path : Folders,
                      modified_time : {1}, created_time : {1}], MaxArch)},
     register : {NoTable}]

InitQueue ==
    /\ all_inputs \in QueueTables
    /\ Fresh

\* data_model['invoices'] = transform_invoices('invoices', all_inputs, logger)
Transform ==
    /\ stage = "loaded"
    /\ data_model' = transform_invoices(all_inputs)
    /\ all_inputs' = inputs_after_transform(all_inputs)
    /\ stage' = "transformed"
    /\ UNCHANGED <<data_register, problem, ctor>>
    /\ UNCHANGED downstream

\* InvoiceProblem(invoices_df)
BuildProblem ==
    /\ stage = "transformed"
    /\ data_model.status = "ok"
    /\ problem' = InvoiceProblem_init(data_model.rows)
    /\ stage' = "built"
    /\ UNCHANGED <<all_inputs, data_model, data_register, ctor>>
    /\ UNCHANGED downstream

\* a caller constructs an Invoice directly from a row of the annotated
\* table, with the new_invoice key as it is or left out of the dict
ConstructInvoice ==
    /\ stage = "built"
    /\ \E i \in DOMAIN data_model.rows, drop \in BOOLEAN :
          LET r == data_model.rows[i]
              row == IF drop THEN [k \in (DOMAIN r) \ {"new_invoice"} |-> r[k]] ELSE r
              res == Invoice_init(row)
          IN  ctor' = [called |-> TRUE, raised |-> res.raised,
                       flag |-> IF drop THEN "absent"
                                ELSE IF r.new_invoice THEN "true" ELSE "false",
                       obj |-> res.obj]
    /\ stage' = "constructed"
    /\ UNCHANGED <<all_inputs, data_model, data_register, problem>>
    /\ UNCHANGED downstream

\* data_model['files'] = transform_files('files', all_inputs, logger)
TransformFiles ==
    /\ data_files.status = "none"
    /\ data_files' = transform_files(all_inputs)
    /\ UNCHANGED <<all_inputs, data_model, data_register, problem, ctor, stage, ocr, orch,
                   extractors, runs>>

\* extractor.extract() on the Gmail manager
GmailExtract ==
    /\ extractors.gmail.calls < MaxCalls
    /\ \E g \in GmailFetches, raises \in BOOLEAN :
          extractors' = [extractors EXCEPT
                            !.gmail = extract(@, g, raises,
                                              GmailManager_clean_input_data(g, @.clean))]
    /\ UNCHANGED <<all_inputs, data_model, data_register, problem, ctor, stage, ocr, orch,
                   data_files, runs>>

\* extractor.extract() on the Drive manager
DriveExtract ==
    /\ extractors.drive.calls < MaxCalls
    /\ \E d \in DriveFetches, raises \in BOOLEAN :
          extractors' = [extractors EXCEPT
                            !.drive = extract(@, d, raises,
                                              DriveManager_clean_input_data(d, @.clean))]
    /\ UNCHANGED <<all_inputs, data_model, data_register, problem, ctor, stage, ocr, orch,
                   data_files, runs>>

\* data_model['register'] = transform_register('register', all_inputs, logger)
TransformRegister ==
    /\ data_register.status = "none"
    /\ data_register' = transform_register(all_inputs)
    /\ UNCHANGED <<all_inputs, data_model, problem, ctor, stage>>
    /\ UNCHANGED downstream

\* problem.run_ocr_on_all(ocr_extractor): results = []
OcrStart ==
    /\ stage = "built"
    /\ problem.status = "ok"
    /\ ocr.pc = "idle"
    /\ ocr' = [pc |-> "running", i |-> 1, results |-> <<>>]
    /\ UNCHANGED <<all_inputs, data_model, data_register, problem, ctor, stage, orch,
                   extractors, data_files, runs>>

\* the body of the loop for the next invoice of the queue
OcrIteration ==
    /\ ocr.pc = "running"
    /\ ocr.i <= Len(problem.invoices)
    /\ \E outcome \in ExtractorOutcomes :
          ocr' = ocr_iteration(ocr, problem.invoices[ocr.i], outcome)
    /\ UNCHANGED <<all_inputs, data_model, data_register, problem, ctor, stage, orch,
                   extractors, data_files, runs>>

\* return results
OcrReturn ==
    /\ ocr.pc = "running"
    /\ ocr.i > Len(problem.invoices)
    /\ ocr' = [ocr EXCEPT !.pc = "returned"]
    /\ UNCHANGED <<all_inputs, data_model, data_register, problem, ctor, stage, orch,
                   extractors, data_files, runs>>

Pipeline == <<all_inputs, data_model, data_register, ctor, stage, ocr, extractors,
              data_files, runs>>
CurrentInvoice == problem.invoices[orch.i]
Event(kind) == <<kind, orch.i>>

\* InvoiceOrchestrator(problem, config, ...).run() is entered
RunStart ==
    /\ stage = "built"
    /\ problem.status = "ok"
    /\ orch.pc = "idle"
    /\ \E c \in BOOLEAN : orch' = [NoOrch EXCEPT !.pc = "loop", !.auto_claim_canal = c]
    /\ UNCHANGED <<Pipeline, problem>>

\* for invoice in self.problem.invoices: process_invoice_orchestra(invoice)
RunNextInvoice ==
    /\ orch.pc = "loop"
    /\ orch.i < Len(problem.invoices)
    /\ orch' = [orch EXCEPT !.i = @ + 1, !.pc = first_step,
                            !.events = Append(@, <<"process", orch.i + 1>>)]
    /\ UNCHANGED <<Pipeline, problem>>

\* the loop is exhausted: write_to_sheets comes next
RunLoopDone ==
    /\ orch.pc = "loop"
    /\ orch.i = Len(problem.invoices)
    /\ orch' = [orch EXCEPT !.pc = "write"]
    /\ UNCHANGED <<Pipeline, problem>>

\* invoice.process_ocr(...), the invoice fields, raw_ocr_results and
\* line_results; an exception is logged and raised again
ProcessOcr ==
    /\ orch.pc = "ocr"
    /\ \E outcome \in ExtractorOutcomes, valid_line_item \in BOOLEAN :
          LET r == process_ocr(CurrentInvoice, outcome)
          IN  IF r.raised
              THEN /\ orch' = [orch EXCEPT !.pc = after_exception, !.raised_in = "process",
                                           !.events = Append(@, Event("ocr_started"))]
                   /\ UNCHANGED problem
              ELSE /\ problem' = [problem EXCEPT !.invoices[orch.i] =
                                      invoice_fields_from_ocr(r.value) @@ @]
                   /\ orch' = [orch EXCEPT
                          !.pc = step_after_ocr(canal_sie_of(r.value), orch.auto_claim_canal),
                          !.raw_ocr_results = Append(@, CurrentInvoice.hash),
                          !.line_results =
                              IF valid_line_item THEN Append(@, CurrentInvoice.hash) ELSE @,
                          !.events = @ \o <<Event("ocr_started"), Event("ocr_returned")>>]
    /\ UNCHANGED Pipeline

\* gmail_manager.send_email(recipient=invoice.sender, ...)
SendEmail ==
    /\ orch.pc = "email"
    /\ \E sent \in BOOLEAN :
          orch' = IF sent
                  THEN [orch EXCEPT !.pc = "upload",
                                    !.events = Append(@, Event("email_sent")),
                                    !.emails = Append(@, [recipient |-> CurrentInvoice.sender,
                                                          invoice |-> orch.i])]
                  ELSE [orch EXCEPT !.pc = after_exception, !.raised_in = "process"]
    /\ UNCHANGED <<Pipeline, problem>>

\* drive_manager.upload_pdf(invoice.pdf_local_path); invoice.web_view_link
UploadPdf ==
    /\ orch.pc = "upload"
    /\ \E uploaded \in BOOLEAN :
          IF uploaded
          THEN /\ orch' = [orch EXCEPT
                      !.pc = "preview",
                      !.drive = Append(@, CurrentInvoice.hash),
                      !.events = @ \o <<Event("upload_started"), Event("upload_returned")>>]
               /\ problem' = [problem EXCEPT !.invoices[orch.i] =
                                  [web_view_link |-> "link"] @@ @]
          ELSE /\ orch' = [orch EXCEPT !.pc = after_exception, !.raised_in = "process",
                                       !.events = Append(@, Event("upload_started"))]
               /\ UNCHANGED problem
    /\ UNCHANGED Pipeline

\* generate_preview_image and upload_image; invoice.imagen
Preview ==
    /\ orch.pc = "preview"
    /\ \E outcome \in {"uploaded", "no preview", "raise"} :
          IF outcome = "raise"
          THEN /\ orch' = [orch EXCEPT !.pc = after_exception, !.raised_in = "process"]
               /\ UNCHANGED problem
          ELSE /\ orch' = [orch EXCEPT !.pc = "loop"]
               /\ problem' = [problem EXCEPT !.invoices[orch.i] =
                                  [imagen |-> IF outcome = "uploaded" THEN "png" ELSE Empty]
                                  @@ @]
    /\ UNCHANGED Pipeline

\* write_to_sheets: registro, line_items and ocr_data are appended in this
\* order, each only when it has rows; the append number fail raises
WriteToSheets ==
    /\ orch.pc = "write"
    /\ \E fail \in 0..3 :
          LET do1 == problem.invoices # <<>>
              do2 == orch.line_results # <<>> /\ fail # 1
              do3 == orch.raw_ocr_results # <<>> /\ fail \notin {1, 2}
          IN  /\ fail = 1 => do1
              /\ fail = 2 => do2
              /\ fail = 3 => do3
              /\ orch' = [orch EXCEPT
                     !.pc = IF fail = 0 THEN "written" ELSE "raised",
                     !.raised_in = IF fail = 0 THEN @ ELSE "write",
                     !.registro = IF do1 /\ fail # 1
                                  THEN append_row(@, registro_rows(problem.invoices)) ELSE @,
                     !.line_items = IF do2 /\ fail # 2
                                    THEN append_row(@, orch.line_results) ELSE @,
                     !.ocr_data = IF do3 /\ fail # 3
                                  THEN append_row(@, orch.raw_ocr_results) ELSE @,
                     !.events = IF do1 /\ fail # 1
                                THEN @ \o EventsFor("appended", Len(problem.invoices)) ELSE @]
    /\ UNCHANGED <<Pipeline, problem>>

\* return result
RunReturn ==
    /\ orch.pc = "written"
    /\ orch' = [orch EXCEPT !.pc = "returned"]
    /\ UNCHANGED <<Pipeline, problem>>

\* the run has ended, by return or by exception, and the program is started
\* again: the new snapshots hold the inbox of that moment, the archive with
\* the files the run uploaded and the ledger with the rows it appended
NewProcess ==
    /\ orch.pc \in {"returned", "raised"}
    /\ runs.n < MaxRuns
    /\ \E inbox \in RunsSourceTables :
          all_inputs' =
              [invoices |-> inbox,
               files |-> Table(all_inputs.files.rows \o
                               uploaded_files(problem.invoices, orch.drive)),
               register |-> register_after(all_inputs.register, orch.registro)]
    /\ runs' = [n |-> runs.n + 1,
                uploaded |-> runs.uploaded \cup {orch.drive[k] : k \in DOMAIN orch.drive}]
    /\ data_model' = NoModel /\ problem' = NoProblem /\ orch' = NoOrch
    /\ stage' = "loaded"
    /\ UNCHANGED <<data_register, ctor, ocr, extractors, data_files>>

Next == Transform \/ BuildProblem \/ ConstructInvoice

Spec == Init /\ [][Next]_vars
SpecNull == InitNull /\ [][Next]_vars
SpecDrift == InitDrift /\ [][Next]_vars
SpecNames == InitNames /\ [][Next]_vars

NextOcr == Transform \/ BuildProblem \/ OcrStart \/ OcrIteration \/ OcrReturn
SpecOcr == InitQueue /\ [][NextOcr]_vars

NextRun ==
    \/ Transform \/ BuildProblem \/ RunStart \/ RunNextInvoice \/ RunLoopDone
    \/ ProcessOcr \/ SendEmail \/ UploadPdf \/ Preview \/ WriteToSheets \/ RunReturn
SpecRun == InitQueue /\ [][NextRun]_vars

NextRuns == NextRun \/ NewProcess
SpecRuns == InitRuns /\ [][NextRuns]_vars

NextSchema == Transform \/ TransformRegister
SpecSchema == InitSchema /\ [][NextSchema]_vars
SpecDup == InitDup /\ [][NextSchema]_vars

SpecFiles == InitFiles /\ [][TransformFiles]_vars

NextExtract == GmailExtract \/ DriveExtract
SpecExtract == InitExtract /\ [][NextExtract]_vars

(* ====================== properties of the reconciliation ============== *)
SrcRows == all_inputs.invoices.rows
ArchRows == all_inputs.files.rows
ArchiveHashSet == {ArchRows[j].md5Checksum : j \in DOMAIN ArchRows}
LedgerHashSet == {all_inputs.register.rows[j].md5Checksum : j \in DOMAIN all_inputs.register.rows}
Annotated == data_model.status = "ok"
Out == data_model.rows
SameHash(i) == {j \in DOMAIN SrcRows : SrcRows[j].hash = SrcRows[i].hash}

\* C1 (as stated): with a non-empty ledger a source record is new_invoice
\* exactly when its hash does not occur among the ledger hashes.
C1_LedgerDecides ==
    (Annotated /\ all_inputs.register.present) =>
        \A i \in DOMAIN Out : Out[i].new_invoice = (SrcRows[i].hash \notin LedgerHashSet)

\* C1 (amended): with a non-empty ledger a source record is new_invoice
\* exactly when its hash does not occur among the archive (Drive) hashes,
\* whatever the ledger contains.
C1_ArchiveDecides ==
    (Annotated /\ all_inputs.register.present) =>
        \A i \in DOMAIN Out : Out[i].new_invoice = (SrcRows[i].hash \notin ArchiveHashSet)

\* a hash recorded in the ledger but not archived has been flagged new
C1_Witness ==
    /\ Annotated
    /\ all_inputs.register.present
    /\ \E i \in DOMAIN Out :
          /\ SrcRows[i].hash \in LedgerHashSet
          /\ SrcRows[i].hash \notin ArchiveHashSet
          /\ Out[i].new_invoice

\* C2: with an empty ledger the reconciliation of a non-empty source does not
\* fail and flags a record new_invoice exactly when its hash is not among the
\* archive hashes (every record when the archive is empty too).
C2_EmptyLedgerArchiveRule ==
    (stage # "loaded" /\ all_inputs.invoices.present /\ ~all_inputs.register.present) =>
        /\ data_model.status = "ok"
        /\ \A i \in DOMAIN Out : Out[i].new_invoice = (SrcRows[i].hash \notin ArchiveHashSet)

\* C3: InvoiceProblem.invoices never holds two invoices with the same hash.
C3_UniqueHashes ==
    problem.status = "ok" =>
        \A k, l \in DOMAIN problem.invoices :
            k # l => problem.invoices[k].hash # problem.invoices[l].hash

\* the earliest-received row of its hash, the first in input order on ties
IsEarliest(i) ==
    \A j \in SameHash(i) :
        \/ SrcRows[j].date_received > SrcRows[i].date_received
        \/ (SrcRows[j].date_received = SrcRows[i].date_received /\ j >= i)
MustProcess == {i \in DOMAIN Out : Out[i].new_invoice /\ IsEarliest(i)}

\* C4: an Invoice is emitted exactly for the rows that are new_invoice and
\* the earliest-received of their hash: one Invoice per new hash.
C4_NewAndEarliestOnly ==
    problem.status = "ok" =>
        /\ Len(problem.invoices) = Cardinality(MustProcess)
        /\ \A i \in MustProcess : \E k \in DOMAIN problem.invoices :
              /\ problem.invoices[k].hash = SrcRows[i].hash
              /\ problem.invoices[k].filename = SrcRows[i].filename
              /\ problem.invoices[k].date_received = SrcRows[i].date_received

\* C5: constructing an Invoice raises and yields no object when the row's
\* new_invoice flag is false or absent, and succeeds only when it is true.
C5_ConstructionGuard ==
    ctor.called =>
        /\ ctor.raised <=> (ctor.flag # "true")
        /\ (ctor.obj # <<>>) <=> (ctor.flag = "true")

\* a construction from a row flagged not new was attempted and raised
C5_Witness ==
    /\ ctor.called
    /\ ctor.flag = "false"
    /\ ctor.raised
    /\ ctor.obj = <<>>

Unhashable == {Null, Empty}

IsFirstLatest(i) ==
    \A j \in SameHash(i) :
        \/ SrcRows[j].date_received < SrcRows[i].date_received
        \/ (SrcRows[j].date_received = SrcRows[i].date_received /\ j >= i)

C8_DuplicateCount ==
    Annotated =>
        \A i \in DOMAIN Out :
            /\ Out[i].invoice_count = Cardinality(SameHash(i))
            /\ Out[i].invoice_count >= 1
            /\ Out[i].duplicated <=> (Cardinality(SameHash(i)) > 1)

\* a hash delivered twice has been counted and flagged as duplicated
C8_Witness ==
    /\ Annotated
    /\ \E i \in DOMAIN Out : Out[i].invoice_count = 2 /\ Out[i].duplicated

\* C9: every annotated record has exactly one of new_invoice and
\* common_invoice, and common_invoice is the archive-relative flag (its hash
\* occurs among the Drive hashes) whatever the ledger holds.
C9_NewXorCommon ==
    Annotated =>
        \A i \in DOMAIN Out :
            /\ Out[i].new_invoice # Out[i].common_invoice
            /\ Out[i].common_invoice = (SrcRows[i].hash \in ArchiveHashSet)

\* one record was flagged common and another new in the same run
C9_Witness ==
    /\ Annotated
    /\ \E i, j \in DOMAIN Out :
          /\ Out[i].common_invoice /\ ~Out[i].new_invoice
          /\ Out[j].new_invoice /\ ~Out[j].common_invoice

\* C10 (as stated): diff_filename_between_sources is true for a record
\* exactly when some archive record of its hash has a filename different
\* from the record's own filename.
C10_OwnFilenameDrift ==
    Annotated =>
        \A i \in DOMAIN Out :
            Out[i].diff_filename_between_sources <=>
                \E j \in DOMAIN ArchRows :
                    /\ ArchRows[j].md5Checksum = SrcRows[i].hash
                    /\ ArchRows[j].filename # SrcRows[i].filename

\* C10 (amended): the flag is true for a record exactly when some archive
\* record of its hash has a filename different from the filename of some
\* source record of that hash; it is false when the hash is not archived.
C10_HashFilenameDrift ==
    Annotated =>
        \A i \in DOMAIN Out :
            /\ Out[i].diff_filename_between_sources <=>
                  \E k \in SameHash(i), j \in DOMAIN ArchRows :
                      /\ ArchRows[j].md5Checksum = SrcRows[i].hash
                      /\ ArchRows[j].filename # SrcRows[k].filename
            /\ SrcRows[i].hash \notin ArchiveHashSet =>
                  ~Out[i].diff_filename_between_sources

\* a record is flagged although its own filename is the filename of every
\* archive record of its hash
C10_Witness ==
    /\ Annotated
    /\ \E i \in DOMAIN Out :
          /\ Out[i].diff_filename_between_sources
          /\ SrcRows[i].hash \in ArchiveHashSet
          /\ \A j \in DOMAIN ArchRows :
                ArchRows[j].md5Checksum = SrcRows[i].hash =>
                    ArchRows[j].filename = SrcRows[i].filename

\* C11: diff_filename_in_gmail is true for a source record exactly when the
\* source records sharing its hash carry more than one distinct filename, and
\* all records of one hash group receive the same value.
C11_WithinSourceDrift ==
    Annotated =>
        /\ \A i \in DOMAIN Out :
              Out[i].diff_filename_in_gmail <=>
                  \E j, k \in SameHash(i) : SrcRows[j].filename # SrcRows[k].filename
        /\ \A i \in DOMAIN Out : \A j \in SameHash(i) :
              Out[j].diff_filename_in_gmail = Out[i].diff_filename_in_gmail

\* one hash delivered under two filenames is flagged on both records, and a
\* hash delivered twice under one filename is not flagged
C11_Witness ==
    /\ Annotated
    /\ \E i, j \in DOMAIN Out :
          /\ i # j
          /\ SrcRows[i].hash = SrcRows[j].hash
          /\ SrcRows[i].filename # SrcRows[j].filename
          /\ Out[i].diff_filename_in_gmail
          /\ Out[j].diff_filename_in_gmail

\* C16: a call of transform_invoices leaves the tables of all_inputs with
\* exactly the rows, columns and values they had before the call.
C16_TransformIsPure ==
    [][(stage = "loaded" /\ stage' = "transformed") => all_inputs' = all_inputs]_vars

\* the transform has returned an annotated table while the caller's invoices
\* table still has its three input columns only
C16_Witness ==
    /\ stage = "transformed"
    /\ Annotated
    /\ \A i \in DOMAIN SrcRows : DOMAIN SrcRows[i] = InvoicesColumns
    /\ \E i \in DOMAIN Out : DOMAIN Out[i] # InvoicesColumns

\* C12: the across-source comparison is whitespace-trimmed and case-sensitive:
\* a record's diff_filename_between_sources is true exactly when a source
\* filename and an archive filename of its hash still differ after trimming
\* (a difference in letter case counts, surrounding blanks do not).
C12_TrimmedCaseSensitive ==
    Annotated =>
        \A i \in DOMAIN Out :
            Out[i].diff_filename_between_sources <=>
                \E k \in SameHash(i), j \in DOMAIN ArchRows :
                    /\ ArchRows[j].md5Checksum = SrcRows[i].hash
                    /\ Strip(ArchRows[j].filename) # Strip(SrcRows[k].filename)

\* the tables obtained from rows by giving every row an arbitrary filename
RenamedRows(rows) ==
    {[i \in DOMAIN rows |-> [rows[i] EXCEPT !.filename = fs[i]]] :
        fs \in [DOMAIN rows -> Filenames]}

\* the input snapshots that differ from all only in filenames of source or
\* archive records
Renamed(all) ==
    {[all EXCEPT !.invoices.rows = r1, !.files.rows = r2] :
        r1 \in RenamedRows(all.invoices.rows), r2 \in RenamedRows(all.files.rows)}

\* the source records the work items were made from, in queue order
Emitted(invs) == [k \in DOMAIN invs |-> <<invs[k].hash, invs[k].date_received>>]

\* C13: a run on a snapshot that differs from this run's snapshot only in
\* filenames of source or archive records gives every source record the same
\* new_invoice and common_invoice values and emits Invoices for the same
\* records.
C13_DriftIsAdvisory ==
    /\ Annotated =>
          \A o \in Renamed(all_inputs) :
              LET t == transform_invoices(o)
              IN  /\ t.status = "ok"
                  /\ \A i \in DOMAIN Out :
                        /\ t.rows[i].new_invoice = Out[i].new_invoice
                        /\ t.rows[i].common_invoice = Out[i].common_invoice
    /\ problem.status = "ok" =>
          \A o \in Renamed(all_inputs) :
              LET p == InvoiceProblem_init(transform_invoices(o).rows)
              IN  /\ p.status = "ok"
                  /\ Emitted(p.invoices) = Emitted(problem.invoices)

\* a run with a work item and a record flagged for filename drift, while a
\* renamed snapshot does not flag that record
C13_Witness ==
    /\ problem.status = "ok"
    /\ problem.invoices # <<>>
    /\ \E i \in DOMAIN Out :
          /\ Out[i].diff_filename_between_sources
          /\ \E o \in Renamed(all_inputs) :
                ~transform_invoices(o).rows[i].diff_filename_between_sources

\* the rows of a table whose key column holds h, in table order
Restrict(rows, key, h) == SelectSeq(rows, LAMBDA r : r[key] = h)

\* two snapshots with the same source, archive and ledger records of hash h
SameOn(a, b, h) ==
    /\ Restrict(a.invoices.rows, "hash", h) = Restrict(b.invoices.rows, "hash", h)
    /\ Restrict(a.files.rows, "md5Checksum", h) = Restrict(b.files.rows, "md5Checksum", h)
    /\ Restrict(a.register.rows, "md5Checksum", h) = Restrict(b.register.rows, "md5Checksum", h)

\* the flags of the annotated records of hash h, in table order
HashFlags(rows, h) ==
    LET sel == Restrict(rows, "hash", h)
    IN  [k \in DOMAIN sel |->
            <<sel[k].invoice_count, sel[k].duplicated, sel[k].is_latest,
              sel[k].new_invoice, sel[k].common_invoice,
              sel[k].diff_filename_in_gmail, sel[k].diff_filename_between_sources>>]

\* C14: the flags of the source records of hash h are the same in every run
\* whose snapshot has the same source, archive and ledger records of hash h,
\* however the records of other hashes are added, removed or changed.
C14_HashGroupsIndependent ==
    Annotated =>
        \A h \in Hashes, o \in InputTables(Hashes) :
            (SameOn(all_inputs, o, h) /\ Restrict(SrcRows, "hash", h) # <<>>) =>
                LET t == transform_invoices(o)
                IN  /\ t.status = "ok"
                    /\ HashFlags(t.rows, h) = HashFlags(Out, h)

\* a table that is there but has no column c
Lacks(t, c) == t.present /\ \E i \in DOMAIN t.rows : c \notin DOMAIN t.rows[i]

\* the required fields (hash, filename, received_at) under their column names
SourceSchemaViolated == \E c \in {"hash", "filename", "date_received"} : Lacks(all_inputs.invoices, c)
ArchiveSchemaViolated ==
    \E c \in {"md5Checksum", "filename", "modified_time"} : Lacks(all_inputs.files, c)
LedgerSchemaViolated == \E c \in {"md5Checksum", "filename"} : Lacks(all_inputs.register, c)

NoResult(m) == m.status \in {"none", "raised"}

\* C17 (as stated): when a required field is absent from the whole source,
\* archive or ledger collection, no transform returns a result.
C17_SchemaViolationAborts ==
    (SourceSchemaViolated \/ ArchiveSchemaViolated \/ LedgerSchemaViolated) =>
        (NoResult(data_model) /\ NoResult(data_register))

\* C17 (amended): transform_invoices returns no classification when the
\* source or the archive lacks a required column, and is not affected by the
\* ledger's columns; transform_register returns nothing when the ledger
\* lacks filename or the archive lacks md5Checksum or filename, but enriches a
\* ledger without md5Checksum, with the hash-based flags set to FALSE.
C17_SourceArchiveSchemaAborts ==
    /\ (SourceSchemaViolated \/ ArchiveSchemaViolated) => NoResult(data_model)
    /\ (stage # "loaded" /\ ~SourceSchemaViolated /\ ~ArchiveSchemaViolated
            /\ HasColumns(all_inputs.files, FilesColumns)) =>
          data_model.status = "ok"
    /\ (\/ Lacks(all_inputs.register, "filename")
        \/ Lacks(all_inputs.files, "md5Checksum")
        \/ Lacks(all_inputs.files, "filename")) => NoResult(data_register)
    /\ (/\ data_register.status # "none"
        /\ Lacks(all_inputs.register, "md5Checksum")
        /\ HasColumns(all_inputs.files, RegisterFilesColumns)) =>
          /\ data_register.status = "ok"
          /\ Len(data_register.rows) = Len(all_inputs.register.rows)
          /\ \A i \in DOMAIN data_register.rows :
                /\ ~data_register.rows[i].duplicated_in_register
                /\ ~data_register.rows[i].diff_filename_between_sources

\* both transforms have returned a result for a ledger without md5Checksum
C17_Witness ==
    /\ Lacks(all_inputs.register, "md5Checksum")
    /\ data_register.status = "ok"
    /\ data_model.status = "ok"

Queue == problem.invoices

\* C18: run_ocr_on_all never raises; it appends exactly one entry per
\* invoice in queue order, an entry with an error and no data for an invoice
\* whose processing failed, and it returns only after every invoice of the
\* queue, also those behind a failing one, has got its entry.
C18_ErrorsAccumulated ==
    /\ ocr.pc # "raised"
    /\ ocr.pc # "idle" =>
          /\ Len(ocr.results) = ocr.i - 1
          /\ Len(ocr.results) <= Len(Queue)
          /\ \A k \in DOMAIN ocr.results :
                /\ ocr.results[k].hash = Queue[k].hash
                /\ ("error" \in DOMAIN ocr.results[k]) <=> (ocr.results[k].ocr_data = Null)
                /\ Queue[k].pdf_local_path = Null => "error" \in DOMAIN ocr.results[k]
    /\ ocr.pc = "returned" => Len(ocr.results) = Len(Queue)

\* the pass has returned with an error entry for the first invoice and a
\* data entry for the one behind it
C18_Witness ==
    /\ ocr.pc = "returned"
    /\ Len(ocr.results) = 2
    /\ "error" \in DOMAIN ocr.results[1]
    /\ ocr.results[1].ocr_data = Null
    /\ ocr.results[2].ocr_data # Null

\* the queue positions handed to process_invoice_orchestra, in call order
Processed == SelectSeq(orch.events, LAMBDA e : e[1] = "process")
RunEnded == orch.pc \in {"returned", "raised"}

\* C19: a run hands every invoice of the problem to the per-invoice
\* processing exactly once, in queue order, and a run that completes has
\* appended exactly one registro row per invoice.
C19_ConsumedExactlyOnce ==
    /\ \A p \in DOMAIN Processed : Processed[p][2] = p
    /\ RunEnded => Len(Processed) = Len(Queue)
    /\ orch.pc = "returned" =>
          /\ Len(orch.registro) = Len(Queue)
          /\ \A k \in DOMAIN Queue : orch.registro[k].invoice_hash = Queue[k].hash

\* C20: the upload of an invoice starts only after its extraction has
\* returned, and its registro row is appended only after its upload has
\* returned.
C20_StepOrder ==
    \A p \in DOMAIN orch.events :
        LET e == orch.events[p]
        IN  /\ e[1] = "upload_started" =>
                  \E q \in 1..(p - 1) : orch.events[q] = <<"ocr_returned", e[2]>>
            /\ e[1] = "appended" =>
                  \E q \in 1..(p - 1) : orch.events[q] = <<"upload_returned", e[2]>>

\* a run over two invoices has returned after extracting, uploading and
\* registering both
C20_Witness ==
    /\ orch.pc = "returned"
    /\ Len(Queue) = 2
    /\ \A k \in 1..2 :
          \E p, q, r \in DOMAIN orch.events :
              /\ p < q /\ q < r
              /\ orch.events[p] = <<"ocr_returned", k>>
              /\ orch.events[q] = <<"upload_started", k>>
              /\ orch.events[r] = <<"appended", k>>

\* the work items as InvoiceProblem constructed them from the annotated table
Constructed == InvoiceProblem_init(Out).invoices

C24_AbortAppendsNothing ==
    orch.raised_in = "process" =>
        /\ orch.pc = "raised"
        /\ Len(Processed) = orch.i
        /\ orch.registro = <<>>
        /\ orch.line_items = <<>>
        /\ orch.ocr_data = <<>>
        /\ \A p \in DOMAIN orch.events : orch.events[p][1] # "appended"

\* the second invoice raised after the first had been extracted and
\* uploaded, and the registro got no row
C24_Witness ==
    /\ orch.raised_in = "process"
    /\ orch.i = 2
    /\ orch.drive # <<>>
    /\ orch.raw_ocr_results # <<>>
    /\ orch.registro = <<>>

\* the invoices whose upload has started, and those an email was sent for
UploadStarted == {e[2] : e \in {orch.events[p] : p \in DOMAIN orch.events} \cap
                                  ({"upload_started"} \X (1..Len(Queue)))}
Emailed(k) == {p \in DOMAIN orch.emails : orch.emails[p].invoice = k}

NewRows == {i \in DOMAIN Out : Out[i].new_invoice = TRUE}
NthNewRow(k) == CHOOSE i \in NewRows : Cardinality({j \in NewRows : j <= i}) = k

\* C27: the problem holds one Invoice per row marked new, in table order,
\* with that row's hash, filename and date_received; the other rows add no
\* Invoice and do not make the construction raise.
C27_OneInvoicePerNewRow ==
    problem.status # "none" =>
        /\ problem.status = "ok"
        /\ Len(problem.invoices) = Cardinality(NewRows)
        /\ \A k \in DOMAIN problem.invoices :
              LET i == NthNewRow(k)
              IN  /\ problem.invoices[k].hash = SrcRows[i].hash
                  /\ problem.invoices[k].filename = SrcRows[i].filename
                  /\ problem.invoices[k].date_received = SrcRows[i].date_received

\* a table whose first row is not new and whose second row is: the one
\* Invoice of the problem comes from the second row
C27_Witness ==
    /\ problem.status = "ok"
    /\ Len(Out) = 2 /\ Out[1].new_invoice = FALSE /\ Out[2].new_invoice = TRUE
    /\ Len(problem.invoices) = 1
    /\ problem.invoices[1].filename = SrcRows[2].filename

\* C22: the annotated table has one row per row of the source table, in the
\* same order: row k is source row k with its hash, filename and date.
C22_OneRowPerSourceRow ==
    Annotated =>
        /\ Len(Out) = Len(SrcRows)
        /\ \A k \in DOMAIN Out :
              /\ Out[k].hash = SrcRows[k].hash
              /\ Out[k].filename = SrcRows[k].filename
              /\ Out[k].date_received = SrcRows[k].date_received

\* two source records of one hash under different names, and two archive
\* files of that hash: still two annotated rows
C22_Witness ==
    /\ Annotated
    /\ Len(SrcRows) = 2 /\ SrcRows[1].hash = SrcRows[2].hash
    /\ SrcRows[1].filename # SrcRows[2].filename
    /\ Cardinality({j \in DOMAIN ArchRows : ArchRows[j].md5Checksum = SrcRows[1].hash}) = 2
    /\ Len(Out) = 2 /\ Out[1].diff_filename_in_gmail

\* C28: a ledger row is flagged only if its checksum is in the archive, and
\* never when some archive file of its checksum has its trimmed filename.
C28_LedgerDriftFlag ==
    data_register.status = "ok" =>
        \A k \in DOMAIN data_register.rows :
            LET r == data_register.rows[k]
                same == {j \in DOMAIN ArchRows : ArchRows[j].md5Checksum = r.md5Checksum}
            IN  /\ r.diff_filename_between_sources => same # {}
                /\ (\E j \in same : Strip(ArchRows[j].filename) = Strip(r.filename))
                       => ~r.diff_filename_between_sources

\* C30: after an extract() call that returned, every table of clean_inputs
\* is the cleaned form of the table that call fetched.
C30_CleanFromSameFetch ==
    /\ (extractors.drive.calls > 0 /\ extractors.drive.status = "ok") =>
          (extractors.drive.clean.files.present =>
              /\ extractors.drive.raw.files # <<>>
              /\ extractors.drive.clean.files.rows = rename_columns(extractors.drive.raw.files))
    /\ (extractors.gmail.calls > 0 /\ extractors.gmail.status = "ok") =>
          \A key \in {"messages", "invoices"} :
              extractors.gmail.clean[key].present =>
                  /\ extractors.gmail.raw[key] # <<>>
                  /\ extractors.gmail.clean[key].rows = extractors.gmail.raw[key]

\* the files of the listing and the greatest modified_time among the files
\* of checksum h
FileRowsIn == all_inputs.files.rows
SameChecksum(h) == {j \in DOMAIN FileRowsIn : FileRowsIn[j].md5Checksum = h}
GreatestModified(h) ==
    LET ts == {FileRowsIn[j].modified_time : j \in SameChecksum(h)}
    IN  CHOOSE m \in ts : \A t \in ts : t <= m

\* C29: the table has one row per input file; every checksum has a row with
\* last_version true; a row has last_version true exactly when its
\* modified_time is the greatest of the files of its checksum.
C29_LastVersionIsGreatest ==
    data_files.status = "ok" =>
        /\ Len(data_files.rows) = Len(FileRowsIn)
        /\ \A i \in DOMAIN data_files.rows :
              /\ data_files.rows[i].md5Checksum = FileRowsIn[i].md5Checksum
              /\ data_files.rows[i].modified_time = FileRowsIn[i].modified_time
              /\ data_files.rows[i].last_version <=>
                     (FileRowsIn[i].modified_time = GreatestModified(FileRowsIn[i].md5Checksum))
        /\ \A h \in {FileRowsIn[j].md5Checksum : j \in DOMAIN FileRowsIn} :
              \E i \in SameChecksum(h) : data_files.rows[i].last_version

\* three files of one checksum, the greatest modified_time carried twice:
\* both of those rows are last versions, the older file is not
C29_Witness ==
    /\ data_files.status = "ok" /\ Len(FileRowsIn) = 3
    /\ \A j \in 1..3 : FileRowsIn[j].md5Checksum = FileRowsIn[1].md5Checksum
    /\ FileRowsIn[1].modified_time = 2 /\ FileRowsIn[2].modified_time = 1
    /\ FileRowsIn[3].modified_time = 2
    /\ data_files.rows[1].last_version /\ ~data_files.rows[2].last_version
    /\ data_files.rows[3].last_version

\* the hashes with a ledger row: those of the ledger snapshot and those the
\* current run appended
LedgerRowHashes ==
    register_hashes(all_inputs) \cup
        {orch.registro[k].invoice_hash : k \in DOMAIN orch.registro}

====
